---------------------------- MODULE Spec2Model ----------------------------
(***************************************************************************)
(* A model of src/model.py (RNN-Transducer): the greedy decoding loop      *)
(* (Transducer.greedy_decode), the masked convolution stack                *)
(* (MaskConv.forward, decrease_dim, is_time_decrease, MaskConv.output_time)*)
(* and the two-stream forward pass (Transducer.forward).                   *)
(*                                                                         *)
(* Layer primitives are opaque.  The LSTM of LanguageModel is modelled by  *)
(* its free interpretation: a recurrent state is identified by the         *)
(* sequence of embedded symbols that produced it from the zero state, so   *)
(* two states are equal here exactly when they are equal for every choice  *)
(* of weights.  A tensor cell of the convolution stack is 0 (exactly zero) *)
(* or the index of the layer that produced it (some value, not zero in     *)
(* general).                                                               *)
(***************************************************************************)
EXTENDS Integers, Sequences, FiniteSets, TLC

\* ------------------------------------------------------------------ bounds
MaxN == 2          \* largest batch size
MaxT == 2          \* largest acoustic time extent of a decode run
VocabSize == 2     \* vocab_size of the decode runs
MaxLen == 4        \* largest small time extent of an encoder input
MaxDepth == 2      \* longest transform stack
MaxPending == 2    \* most operations pending on the device when forward is called

\* ------------------------------------------------------- program constants
Layers == 2        \* lm_layers, the LSTM's num_layers
StartSymbol == 0   \* the symbol the decode loop primes the prediction network with
ProbeLen == 100    \* the probe length of is_time_decrease

VARIABLES
    op,        \* the entry point this behaviour executes
    \* Transducer.greedy_decode
    n, t,      \* xs.size(): batch size and time extent
    blank,     \* self.blank
    argmax,    \* output mode: symbols (TRUE) or distributions (FALSE)
    xn,        \* the acoustic valid lengths the caller holds (never passed in)
    d_pc,      \* "call", "loop", "done"
    i,         \* loop index
    s,         \* output tensor, s[j][m + 1] for sample j and timestep m
    c,         \* symbols of the current step, shape (1, n)
    yd,        \* prediction representation, shape (1, n, prj)
    hd, cd,    \* recurrent state, shape (layers, n, hidden) each
    rec,       \* the columns of s written so far, in order
    emitted,   \* per sample, the symbols selected so far, in order
    \* MaskConv.forward / MaskConv.output_time
    layers,    \* self.layers, the transform stack
    x0len,     \* time extent of the input tensor
    lengths0,  \* the lengths argument as passed in
    m_pc,      \* "call", "loop", "returned", "error", "am_returned", "am_error",
               \* "ot_returned"
    li,        \* number of layers processed
    x,         \* the tensor, x[b][j + 1] the cell of sample b at timestep j
    y,         \* layer(x) of the last layer processed, before masking
    lengths,   \* the lengths local
    mask,      \* the mask local, <<>> for None
    out,       \* the returned tensor, time-major: out[j + 1][b]
    ot,        \* the value returned by output_time, per input length
    \* Transducer.forward
    f_pc,      \* position of the host in forward's body (past its end: returned)
    queue,     \* per device stream, the kernels launched and not yet run
    buf,       \* per buffer: "unset", "ok" or "bad" (computed from unset data)
    acc        \* per stream, the buffers its kernels have read and written

decVars == <<n, t, blank, argmax, xn, d_pc, i, s, c, yd, hd, cd, rec, emitted>>

convVars == <<layers, x0len, lengths0, m_pc, li, x, y, lengths, mask, out, ot>>

fwdVars == <<f_pc, queue, buf, acc>>

vars == <<op, decVars, convVars, fwdVars>>

Vocab == 0 .. (VocabSize - 1)

\* ------------------------------------------------------ entry points not running
DecodeIdle ==
    /\ n = 0 /\ t = 0 /\ blank = 0 /\ argmax = TRUE /\ xn = <<>> /\ d_pc = "idle"
    /\ i = 0 /\ s = <<>> /\ c = <<>> /\ yd = <<>> /\ hd = <<>> /\ cd = <<>>
    /\ rec = <<>> /\ emitted = <<>>

ConvIdle ==
    /\ layers = <<>> /\ x0len = 0 /\ lengths0 = <<>> /\ m_pc = "idle" /\ li = 0
    /\ x = <<>> /\ y = <<>> /\ lengths = <<>> /\ mask = <<>> /\ out = <<>> /\ ot = <<>>

ForwardIdle ==
    /\ f_pc = 0 /\ queue = <<>> /\ buf = <<>> /\ acc = <<>>

\* ------------------------------------------------------ LanguageModel
\* self.emb(x): the embedding row of symbol u; padding_idx = blank makes
\* the blank's row the zero vector.
Emb(u, blk) == [sym |-> u, zero |-> (u = blk)]

\* One value of the recurrent state: layer l's h or c vector for one sample,
\* named by the embedded inputs consumed since the zero state.
StateVal(part, l, hist) == [part |-> part, layer |-> l, hist |-> hist]

\* LanguageModel.step_init: zero-valued (h, c), each (num_layers, batch, hidden).
StepInit(batch) ==
    [h |-> [l \in 1 .. Layers |-> [j \in 1 .. batch |-> StateVal("h", l, <<>>)]],
     c |-> [l \in 1 .. Layers |-> [j \in 1 .. batch |-> StateVal("c", l, <<>>)]]]

\* The input history one sample's (h, c) columns stand for.  All layers of
\* h and c carry the same history when they were produced together; any
\* other combination is a state of its own, named by all its parts.
RECURSIVE PartsFrom(_, _, _)
PartsFrom(hj, cj, l) ==
    IF l > Layers THEN <<>>
    ELSE <<[mixed |-> TRUE, h |-> hj[l].hist, c |-> cj[l].hist]>> \o PartsFrom(hj, cj, l + 1)

HistOf(hj, cj) ==
    IF \A l \in 1 .. Layers : hj[l].hist = hj[1].hist /\ cj[l].hist = hj[1].hist
    THEN hj[1].hist
    ELSE PartsFrom(hj, cj, 1)

\* LanguageModel.step_features(x, h): embed, advance the LSTM one step, project.
\* The symbols u have shape (1, batch); h is a pair of (layers, batch, hidden) tensors.
StepFeatures(u, h, blk) ==
    LET batch == Len(u[1])
        new   == [j \in 1 .. batch |->
                    Append(HistOf([l \in 1 .. Layers |-> h.h[l][j]],
                                  [l \in 1 .. Layers |-> h.c[l][j]]),
                           Emb(u[1][j], blk))]
    IN  [yd |-> <<[j \in 1 .. batch |-> [part |-> "prj", hist |-> new[j]]]>>,
         h  |-> [l \in 1 .. Layers |-> [j \in 1 .. batch |-> StateVal("h", l, new[j])]],
         c  |-> [l \in 1 .. Layers |-> [j \in 1 .. batch |-> StateVal("c", l, new[j])]]]

\* step_features(x) with h = None: the LSTM starts from zeros.
StepFeaturesNone(u, blk) == StepFeatures(u, StepInit(Len(u[1])), blk)

\* ------------------------------------------------------ Transducer.greedy_decode
\* Transducer.joint on one timestep: per sample, a distribution determined by
\* the acoustic vector xs[j, m] and the prediction representation.
Joint(m, v) == [j \in 1 .. Len(v) |-> [at |-> m, pred |-> v[j]]]

\* mask = (c == self.blank).unsqueeze(-1), shape (1, n, 1)
\* A faulty variant: the blank id taken to be 0.
BlankMaskZero(cc, blk) == <<[j \in 1 .. Len(cc[1]) |-> cc[1][j] = 0]>>

BlankMask(cc, blk) == <<[j \in 1 .. Len(cc[1]) |-> cc[1][j] = blk]>>

\* torch.where(mask, a, b) with mask (1, n, 1) broadcast over dimension 0
\* and the last dimension of a and b.
\* Two faulty variants: one branch taken for the whole batch; the candidate
\* always adopted.
WhereAllOrNothing(msk, a, b) ==
    IF \E j \in 1 .. Len(msk[1]) : msk[1][j] THEN a ELSE b

WhereIgnoreMask(msk, a, b) == b

Where(msk, a, b) ==
    [l \in 1 .. Len(a) |-> [j \in 1 .. Len(a[l]) |->
        IF msk[1][j] THEN a[l][j] ELSE b[l][j]]]

\* Lines 244-253: allocate s, prime the prediction network with symbol 0.
DecodeEnter ==
    /\ op = "greedy_decode" /\ d_pc = "call"
    /\ s' = [j \in 1 .. n |-> [m \in 1 .. t |-> 0]]
    /\ c' = <<[j \in 1 .. n |-> StartSymbol]>>
    /\ LET r == StepFeaturesNone(c', blank)
       IN  yd' = r.yd /\ hd' = r.h /\ cd' = r.c
    /\ i' = 0
    /\ d_pc' = "loop"
    /\ UNCHANGED <<op, n, t, blank, argmax, xn, rec, emitted, convVars, fwdVars>>

\* The range of the loop, range(t).
\* A faulty variant first: the loop stops at the shortest valid length.
LoopRangeValid == IF n = 0 THEN 0 ELSE
    LET m == CHOOSE v \in {xn[j] : j \in 1 .. n} : \A j \in 1 .. n : xn[j] >= v
    IN  IF m < t THEN m ELSE t

LoopRange == t

\* Lines 255-285: one iteration of the loop.  The selection (argmax, or a
\* draw with optional epsilon exploration, after the optional prior) yields
\* one symbol of the vocabulary per sample.
DecodeStep ==
    /\ op = "greedy_decode" /\ d_pc = "loop" /\ i < LoopRange
    /\ \E sel \in [1 .. n -> Vocab] :
        LET z    == Joint(i, yd[1])
            c1   == <<[j \in 1 .. n |-> sel[j]]>>
            msk  == BlankMask(c1, blank)
            nxt  == StepFeatures(c1, [h |-> hd, c |-> cd], blank)
        IN  /\ s' = [j \in 1 .. n |->
                        [s[j] EXCEPT ![i + 1] = IF argmax THEN sel[j] ELSE z[j]]]
            /\ c' = c1
            /\ yd' = Where(msk, yd, nxt.yd)
            /\ hd' = Where(msk, hd, nxt.h)
            /\ cd' = Where(msk, cd, nxt.c)
            /\ emitted' = [j \in 1 .. n |-> Append(emitted[j], sel[j])]
    /\ rec' = Append(rec, i)
    /\ i' = i + 1
    /\ UNCHANGED <<op, n, t, blank, argmax, xn, d_pc, convVars, fwdVars>>

\* Line 287: return s.
DecodeReturn ==
    /\ op = "greedy_decode" /\ d_pc = "loop" /\ i >= LoopRange
    /\ d_pc' = "done"
    /\ UNCHANGED <<op, n, t, blank, argmax, xn, i, s, c, yd, hd, cd, rec, emitted,
                   convVars, fwdVars>>

\* A call of greedy_decode: an (n, t, h) acoustic sequence, any blank id of
\* the vocabulary, either output mode.  The caller's valid lengths are all t,
\* or t for the first sample and shorter for the others.
InitDecode ==
    /\ op = "greedy_decode"
    /\ n \in 1 .. MaxN
    /\ t \in 0 .. MaxT
    /\ blank \in Vocab
    /\ argmax \in BOOLEAN
    /\ xn \in {[j \in 1 .. n |-> t],
              [j \in 1 .. n |-> IF j = 1 THEN t ELSE (t + 1) \div 2]}
    /\ d_pc = "call"
    /\ i = 0 /\ s = <<>> /\ c = <<>> /\ yd = <<>> /\ hd = <<>> /\ cd = <<>>
    /\ rec = <<>>
    /\ emitted = [j \in 1 .. n |-> <<>>]
    /\ ConvIdle /\ ForwardIdle

NextDecode == DecodeEnter \/ DecodeStep \/ DecodeReturn

SpecDecode == InitDecode /\ [][NextDecode]_vars

\* ------------------------------------------------------ claims on greedy_decode
DecState == [h |-> hd, c |-> cd]

\* The columns of sample j in a (layers, batch, hidden) tensor.
Col(a, j) == [l \in 1 .. Len(a) |-> a[l][j]]

\* C1: at every timestep and for every sample on its own, a sample whose
\* emitted symbol is the blank keeps (hd, cd, yd) as they were, and any other
\* sample takes the candidate step_features returns for the emitted symbols
\* and the previous state, whatever the other samples of the batch emitted.
C1_StateCarry ==
    [][(d_pc = "loop" /\ i' = i + 1) =>
        LET cand == StepFeatures(c', DecState, blank)
        IN  \A j \in 1 .. n :
              IF c'[1][j] = blank
              THEN /\ yd'[1][j] = yd[1][j]
                   /\ Col(hd', j) = Col(hd, j)
                   /\ Col(cd', j) = Col(cd, j)
              ELSE /\ yd'[1][j] = cand.yd[1][j]
                   /\ Col(hd', j) = Col(cand.h, j)
                   /\ Col(cd', j) = Col(cand.c, j)]_vars

\* C1 witness: after a step in which sample 1 emitted the blank and sample 2
\* did not, sample 1 still holds the primed state and sample 2 has advanced.
C1_Witness ==
    /\ d_pc = "loop" /\ i = 1 /\ n >= 2
    /\ c[1][1] = blank /\ c[1][2] # blank
    /\ Len(hd[1][1].hist) = 1 /\ Len(hd[1][2].hist) = 2
    /\ Len(yd[1][1].hist) = 1 /\ Len(yd[1][2].hist) = 2

AllBlank(j) == \A m \in 1 .. Len(emitted[j]) : emitted[j][m] = blank

\* C2 as stated: a single-sample run that selected the blank at every
\* timestep ends with (hd, cd) equal to the zero state of step_init.
C2_FinalIsStepInit ==
    (d_pc = "done" /\ n = 1 /\ AllBlank(1)) => DecState = StepInit(1)

\* C2 amended: such a run ends with (hd, cd) equal to the state step_features
\* returned for the start symbol 0 from h = None, the state the loop began
\* with, together with that call's prediction representation.
C2_FinalIsPrimedState ==
    (d_pc = "done" /\ n = 1 /\ AllBlank(1)) =>
        LET r == StepFeaturesNone(<<<<StartSymbol>>>>, blank)
        IN  /\ DecState = [h |-> r.h, c |-> r.c]
            /\ yd = r.yd

C2_Witness ==
    /\ d_pc = "done" /\ n = 1 /\ t = MaxT /\ t >= 2 /\ AllBlank(1)
    /\ Len(emitted[1]) = t

\* C3: the loop runs exactly t iterations whatever is emitted and whatever
\* the valid lengths are: it can always take its next step until it returns,
\* the columns of s are written in the order 0, 1, ..., and at the return
\* every (sample, timestep) pair with timestep in 0 .. t-1 holds the entry
\* recorded for it.
C3_RunsAllTimesteps ==
    /\ d_pc \in {"call", "loop"} => ENABLED NextDecode
    /\ d_pc = "loop" =>
          /\ i <= t
          /\ rec = [m \in 1 .. i |-> m - 1]
          /\ \A j \in 1 .. n : Len(emitted[j]) = i
    /\ d_pc = "done" =>
          /\ i = t
          /\ rec = [m \in 1 .. t |-> m - 1]
          /\ DOMAIN s = 1 .. n
          /\ \A j \in 1 .. n :
                /\ DOMAIN s[j] = 1 .. t
                /\ Len(emitted[j]) = t
                /\ \A m \in 1 .. t :
                      IF argmax THEN s[j][m] = emitted[j][m]
                      ELSE s[j][m].at = m - 1

C3_Witness ==
    /\ d_pc = "done" /\ n = 2 /\ t = MaxT /\ t >= 2
    /\ xn[2] < t
    /\ rec = [m \in 1 .. t |-> m - 1]

\* Running step_features from h = None over a sequence of symbols, one
\* sample: r is the result for the first k - 1 symbols.
RECURSIVE RunFrom(_, _, _, _)
RunFrom(r, syms, k, blk) ==
    IF k > Len(syms) THEN r
    ELSE CHOOSE v \in {RunFrom(StepFeatures(<<<<syms[k]>>>>, [h |-> rr.h, c |-> rr.c], blk),
                               syms, k + 1, blk) : rr \in {r}} : TRUE

RunFeatures(syms, blk) ==
    RunFrom(StepFeaturesNone(<<<<syms[1]>>>>, blk), syms, 2, blk)

NonBlank(syms, blk) == SelectSeq(syms, LAMBDA v : v # blk)

\* C10: after any number of timesteps, sample j's (hd, cd, yd) are what
\* step_features yields from the empty state over the start symbol 0
\* followed by the non-blank symbols emitted for j, in order; blanks, the
\* number of timesteps and the other samples do not enter, and no more than
\* one symbol per timestep was consumed.
C10_StateIsFoldOfNonBlanks ==
    d_pc \in {"loop", "done"} =>
        \A j \in 1 .. n :
            \A r \in {RunFeatures(<<StartSymbol>> \o NonBlank(emitted[j], blank), blank)} :
                /\ yd[1][j] = r.yd[1][1]
                /\ Col(hd, j) = Col(r.h, 1)
                /\ Col(cd, j) = Col(r.c, 1)
                /\ Len(NonBlank(emitted[j], blank)) <= i

\* C10 witness: with a blank id other than 0, sample 1 has emitted a
\* non-blank symbol and then the blank, sample 2 two non-blank symbols.
C10_Witness ==
    /\ d_pc = "loop" /\ i = 2 /\ n >= 2 /\ blank # 0
    /\ emitted[1][1] # blank /\ emitted[1][2] = blank
    /\ emitted[2][1] # blank /\ emitted[2][2] # blank
    /\ Len(hd[1][1].hist) = 2 /\ Len(hd[1][2].hist) = 3

\* ------------------------------------------------------ decrease_dim, is_time_decrease
\* A layer of the stack: a Conv2d with its (feature, time) parameters, or any
\* other module (BatchNorm2d, ReLU, Dropout).
Conv2d(kernel_size, stride, padding, dilation) ==
    [conv |-> TRUE, kernel_size |-> kernel_size, stride |-> stride,
     padding |-> padding, dilation |-> dilation]

Other == [conv |-> FALSE]

\* decrease_dim(x, layer, dim); dim indexes the parameter pairs from 0.
DecreaseDim(v, layer, dim) ==
    IF ~layer.conv THEN v
    ELSE LET p  == layer.padding[dim + 1]
             d  == layer.dilation[dim + 1]
             f  == layer.kernel_size[dim + 1]
             st == layer.stride[dim + 1]
         IN  ((v + 2 * p - d * (f - 1) - 1) \div st) + 1

\* is_time_decrease(layer)
IsTimeDecrease(layer) == DecreaseDim(ProbeLen, layer, 1) # ProbeLen

\* MaskConv.output_time(x): decrease_dim over the first k layers, in order.
RECURSIVE OutputTimeUpTo(_, _, _)
OutputTimeUpTo(ls, v, k) ==
    IF k = 0 THEN v ELSE DecreaseDim(OutputTimeUpTo(ls, v, k - 1), ls[k], 1)

OutputTime(ls, v) == OutputTimeUpTo(ls, v, Len(ls))

\* The layers a stack is drawn from: the two convolutions of AcousticModel
\* (the second keeps the time extent), a non-convolution, an unpadded
\* convolution, a dilated strided one, and a strided convolution whose
\* padding makes the formula map 100 to 100.
AmConv1 == Conv2d(<<21, 11>>, <<2, 2>>, <<10, 5>>, <<1, 1>>)
AmConv2 == Conv2d(<<11, 11>>, <<2, 1>>, <<5, 5>>, <<1, 1>>)

LayerKinds ==
    { AmConv1, AmConv2, Other,
      Conv2d(<<3, 3>>, <<1, 1>>, <<0, 0>>, <<1, 1>>),
      Conv2d(<<3, 3>>, <<2, 2>>, <<1, 1>>, <<2, 2>>),
      Conv2d(<<1, 2>>, <<1, 2>>, <<0, 50>>, <<1, 1>>) }

Stacks == UNION {[1 .. k -> LayerKinds] : k \in 1 .. MaxDepth}

\* Time extents of an input: the small ones and one just above the probe.
TimeExtents == (1 .. MaxLen) \cup {ProbeLen + 1}

\* Lengths a caller may declare for a tensor of time extent tt: everything
\* from -1 to tt + 1 for a small tensor, the ends of that range and the
\* probe's neighbourhood for the large one.
DeclaredLengths(tt) ==
    IF tt <= MaxLen THEN -1 .. (tt + 1)
    ELSE {-1, 0, 1, ProbeLen, tt, tt + 1}

\* ------------------------------------------------------ MaskConv.forward
TimeOf(tensor) == Len(tensor[1])

\* layer(x): every cell of the output is some value of this layer, for which
\* its index stands; a Conv2d's output time extent is its output-size formula.
LayerOut(k, batch, tt) == [b \in 1 .. batch |-> [j \in 1 .. tt |-> k]]

\* Lines 63-71: the mask of the padding positions.  narrow(2, start, length)
\* raises for a negative start, since then start + length exceeds the extent.
NarrowRaises(lens, tt) == \E b \in 1 .. Len(lens) : lens[b] < 0 /\ tt - lens[b] > 0

BuildMask(lens, tt) ==
    [b \in 1 .. Len(lens) |-> [j \in 1 .. tt |->
        LET start  == lens[b]
            length == tt - start
        IN  length > 0 /\ j - 1 >= start /\ j - 1 < start + length]]

\* x.masked_fill(mask, 0) with mask of shape (n, 1, 1, tm): the mask must
\* broadcast to x, so tm is the time extent of x or 1.
FillRaises(tensor, m) == TimeOf(m) # TimeOf(tensor) /\ TimeOf(m) # 1

MaskedFill(tensor, m) ==
    [b \in 1 .. Len(tensor) |-> [j \in 1 .. TimeOf(tensor) |->
        IF m[b][IF TimeOf(m) = 1 THEN 1 ELSE j] THEN 0 ELSE tensor[b][j]]]

\* Line 53: mask = None.
ConvEnter ==
    /\ op = "conv" /\ m_pc = "call"
    /\ mask' = <<>>
    /\ m_pc' = "loop"
    /\ UNCHANGED <<op, decVars, fwdVars, layers, x0len, lengths0, li, x, y, lengths, out, ot>>

\* Lines 55-74: one iteration of the loop over self.layers.  The layer, the
\* narrow of the mask construction and masked_fill may each raise, which
\* ends the call without a result.
ConvLayer ==
    /\ op = "conv" /\ m_pc = "loop" /\ li < Len(layers)
    /\ LET layer == layers[li + 1]
           t1    == DecreaseDim(TimeOf(x), layer, 1)
           y1    == LayerOut(li + 1, Len(x), t1)
           dec   == IsTimeDecrease(layer)
           len1  == IF dec THEN [b \in 1 .. Len(lengths) |-> DecreaseDim(lengths[b], layer, 1)]
                    ELSE lengths
       IN  IF t1 < 1
           THEN /\ m_pc' = "error"
                /\ UNCHANGED <<x, y, lengths, mask>>
           ELSE IF dec /\ NarrowRaises(len1, t1)
           THEN /\ m_pc' = "error"
                /\ x' = y1 /\ y' = y1 /\ lengths' = len1
                /\ UNCHANGED mask
           ELSE LET mask1 == IF dec THEN BuildMask(len1, t1) ELSE mask
                IN  /\ y' = y1 /\ lengths' = len1 /\ mask' = mask1
                    /\ IF mask1 = <<>>
                       THEN x' = y1 /\ m_pc' = "loop"
                       ELSE IF FillRaises(y1, mask1)
                            THEN x' = y1 /\ m_pc' = "error"
                            ELSE x' = MaskedFill(y1, mask1) /\ m_pc' = "loop"
    /\ li' = li + 1
    /\ UNCHANGED <<op, decVars, fwdVars, layers, x0len, lengths0, out, ot>>

\* Lines 76-80: flatten channel and feature, transpose to T x N x H, return.
ConvReturn ==
    /\ op = "conv" /\ m_pc = "loop" /\ li = Len(layers)
    /\ out' = [j \in 1 .. TimeOf(x) |-> [b \in 1 .. Len(x) |-> x[b][j]]]
    /\ m_pc' = "returned"
    /\ UNCHANGED <<op, decVars, fwdVars, layers, x0len, lengths0, li, x, y, lengths, mask, ot>>

\* AcousticModel.forward after self.conv (lines 110-121), on a MaskConv
\* output of shape T x N x H.  pack_padded_sequence (enforce_sorted) raises
\* for a length that is not positive or for lengths not in decreasing order;
\* a length beyond the time extent is taken to raise as well, in the packing
\* or in the GRU over the inconsistent packed data.  Otherwise the call
\* returns the padded output and the lengths.
PackRaises(lens, tt) ==
    \/ \E b \in 1 .. Len(lens) : lens[b] <= 0 \/ lens[b] > tt
    \/ \E b \in 1 .. Len(lens) - 1 : lens[b] < lens[b + 1]

AcousticRest ==
    /\ op = "conv" /\ m_pc = "returned"
    /\ m_pc' = IF PackRaises(lengths, Len(out)) THEN "am_error" ELSE "am_returned"
    /\ UNCHANGED <<op, decVars, fwdVars, layers, x0len, lengths0, li, x, y, lengths, mask,
                   out, ot>>

\* MaskConv.output_time, called on each of the lengths.
OutputTimeCall ==
    /\ op = "conv" /\ m_pc = "call"
    /\ ot' = [b \in 1 .. Len(lengths0) |-> OutputTime(layers, lengths0[b])]
    /\ m_pc' = "ot_returned"
    /\ UNCHANGED <<op, decVars, fwdVars, layers, x0len, lengths0, li, x, y, lengths, mask, out>>

\* A MaskConv over any stack, called with an N x C x D x T tensor (each cell
\* some input value, written -1) and any declared lengths.
InitConv ==
    /\ op = "conv"
    /\ layers \in Stacks
    /\ x0len \in TimeExtents
    /\ \E batch \in 1 .. MaxN :
          /\ lengths0 \in [1 .. batch -> DeclaredLengths(x0len)]
          /\ x = [b \in 1 .. batch |-> [j \in 1 .. x0len |-> -1]]
    /\ y = x
    /\ lengths = lengths0
    /\ m_pc = "call" /\ li = 0 /\ mask = <<>> /\ out = <<>> /\ ot = <<>>
    /\ DecodeIdle /\ ForwardIdle

NextConv == ConvEnter \/ ConvLayer \/ ConvReturn \/ AcousticRest \/ OutputTimeCall

SpecConv == InitConv /\ [][NextConv]_vars

\* ------------------------------------------------------ claims on the convolution stack
\* The single-transform length formula, floor((L + 2p - d(f-1) - 1) / s) + 1
\* along the time axis for a convolution, the identity for any other layer.
Formula(layer, len) ==
    IF layer.conv
    THEN ((len + 2 * layer.padding[2] - layer.dilation[2] * (layer.kernel_size[2] - 1) - 1)
            \div layer.stride[2]) + 1
    ELSE len

RECURSIVE FormulaChain(_, _, _)
FormulaChain(ls, len, k) ==
    IF k > Len(ls) THEN len ELSE FormulaChain(ls, Formula(ls[k], len), k + 1)

ValidInput == \A b \in 1 .. Len(lengths0) : 0 <= lengths0[b] /\ lengths0[b] <= x0len

\* C4 as stated: the lengths MaskConv.forward returns (here for valid
\* declared lengths), and the value of output_time, are the formula applied
\* to each layer of the stack in order.
C4_LengthsFollowFormula ==
    /\ (m_pc = "returned" /\ ValidInput) =>
          \A b \in 1 .. Len(lengths0) : lengths[b] = FormulaChain(layers, lengths0[b], 1)
    /\ m_pc = "ot_returned" =>
          \A b \in 1 .. Len(lengths0) : ot[b] = FormulaChain(layers, lengths0[b], 1)

\* C5 as stated: whenever the mask has been applied to a layer's output,
\* every cell at a timestep >= the sample's current length is zero and every
\* other cell is the layer's output; in the returned tensor every cell at or
\* beyond the returned length is zero.
C5_PaddingIsZero ==
    /\ (m_pc = "loop" /\ li >= 1 /\ mask # <<>>) =>
          \A b \in 1 .. Len(x) : \A j \in 1 .. TimeOf(x) :
              IF j - 1 >= lengths[b] THEN x[b][j] = 0 ELSE x[b][j] = y[b][j]
    /\ m_pc = "returned" =>
          \A j \in 1 .. Len(out) : \A b \in 1 .. Len(out[j]) :
              j - 1 >= lengths[b] => out[j][b] = 0

\* C7 as stated: a declared length that is negative or exceeds the time
\* extent makes the encoder forward fail; it never returns a result for such
\* input (here over stacks of the encoder's own layers).
C7_InvalidLengthFails ==
    (m_pc = "am_returned" /\ \A k \in 1 .. Len(layers) : layers[k] \in {AmConv1, AmConv2, Other})
        => ValidInput

\* Whether the formula of a layer changes some time length.
ChangesSomeLength(layer) ==
    \E len \in 0 .. (ProbeLen + MaxLen) : Formula(layer, len) # len

\* C8 as stated: is_time_decrease is true of exactly the layers whose formula
\* changes some length, so that after every layer that changed the time
\* extent the lengths and the mask have been recomputed for the new extent.
C8_DetectsEveryTimeChange ==
    (m_pc = "loop" /\ li >= 1 /\ ValidInput) =>
        /\ IsTimeDecrease(layers[li]) <=> ChangesSomeLength(layers[li])
        /\ \A b \in 1 .. Len(lengths) :
              lengths[b] = FormulaChain(SubSeq(layers, 1, li), lengths0[b], 1)
        /\ (\E k \in 1 .. li : ChangesSomeLength(layers[k])) =>
              (mask # <<>> /\ TimeOf(mask) = TimeOf(x))

\* C9 as stated: with every declared length between 0 and the input's time
\* extent, after every layer each length is at most the current time extent,
\* and the lengths keep their sample order (one per sample of the batch).
C9_LengthWithinExtent ==
    (ValidInput /\ m_pc \in {"loop", "returned"}) =>
        /\ Len(lengths) = Len(lengths0)
        /\ \A b \in 1 .. Len(lengths) : lengths[b] <= TimeOf(x)

\* ------------------------------------------------------ Transducer.forward
\* The device runs three streams: the default stream and the two created in
\* __init__.  A kernel launched on a stream runs after the kernels launched
\* before it on that stream and in any order with respect to other streams.
Streams == {"default", "stream_am", "stream_lm"}

Inputs == <<"xs", "xn", "ys", "yn">>

Buffers == {"xs", "xn", "ys", "yn", "am_weights", "lm_weights", "fc_weights",
            "am_conv", "am_rnn", "xs_out", "xn_out", "lm_emb", "lm_rnn", "ys_out", "zs"}

Kernel(name, reads, writes) == [name |-> name, reads |-> reads, writes |-> writes]

\* forward_acoustic: the masked convolution stack, the GRU over the packed
\* sequence, the projection.
AcousticKernels ==
    << Kernel("am.conv", {"xs", "xn", "am_weights"}, {"am_conv", "xn_out"}),
       Kernel("am.rnn", {"am_conv", "xn_out", "am_weights"}, {"am_rnn"}),
       Kernel("am.prj", {"am_rnn", "am_weights"}, {"xs_out"}) >>

\* forward_language: the embedding, the LSTM over the packed sequence, the
\* projection.
LanguageKernels ==
    << Kernel("lm.emb", {"ys", "lm_weights"}, {"lm_emb"}),
       Kernel("lm.rnn", {"lm_emb", "yn", "lm_weights"}, {"lm_rnn"}),
       Kernel("lm.prj", {"lm_rnn", "lm_weights"}, {"ys_out"}) >>

\* forward_joint: expand, add, self.fc, log_softmax.
JointKernel == Kernel("joint", {"xs_out", "ys_out", "fc_weights"}, {"zs"})

Launch(stream, kernel) == [kind |-> "launch", stream |-> stream, kernel |-> kernel]

Synchronize == [kind |-> "synchronize"]

\* A faulty variant: forward without its second synchronize.
ForwardBodyNoJoin ==
    << Synchronize >>
    \o [k \in 1 .. Len(AcousticKernels) |-> Launch("stream_am", AcousticKernels[k])]
    \o [k \in 1 .. Len(LanguageKernels) |-> Launch("stream_lm", LanguageKernels[k])]
    \o << Launch("default", JointKernel) >>

\* Lines 227-240: the host's steps in forward.
ForwardBody ==
    << Synchronize >>
    \o [k \in 1 .. Len(AcousticKernels) |-> Launch("stream_am", AcousticKernels[k])]
    \o [k \in 1 .. Len(LanguageKernels) |-> Launch("stream_lm", LanguageKernels[k])]
    \o << Synchronize >>
    \o << Launch("default", JointKernel) >>

\* torch.cuda.synchronize(): the host waits until every stream is drained.
HostSynchronize ==
    /\ op = "forward" /\ f_pc <= Len(ForwardBody)
    /\ ForwardBody[f_pc].kind = "synchronize"
    /\ \A st \in Streams : queue[st] = <<>>
    /\ f_pc' = f_pc + 1
    /\ UNCHANGED <<op, decVars, convVars, queue, buf, acc>>

\* The host launches the next kernel on the current stream and goes on.
HostLaunch ==
    /\ op = "forward" /\ f_pc <= Len(ForwardBody)
    /\ ForwardBody[f_pc].kind = "launch"
    /\ queue' = [queue EXCEPT ![ForwardBody[f_pc].stream] =
                    Append(@, ForwardBody[f_pc].kernel)]
    /\ f_pc' = f_pc + 1
    /\ UNCHANGED <<op, decVars, convVars, buf, acc>>

\* A stream runs its oldest kernel: what it writes is good exactly when
\* everything it reads has been written and is good.
DeviceRun ==
    /\ op = "forward"
    /\ \E st \in Streams :
        /\ queue[st] # <<>>
        /\ LET kn == Head(queue[st])
               ok == \A r \in kn.reads : buf[r] = "ok"
           IN  /\ buf' = [b \in Buffers |->
                            IF b \in kn.writes THEN (IF ok THEN "ok" ELSE "bad") ELSE buf[b]]
               /\ acc' = [acc EXCEPT ![st] = [reads  |-> @.reads \cup kn.reads,
                                              writes |-> @.writes \cup kn.writes]]
        /\ queue' = [queue EXCEPT ![st] = Tail(@)]
    /\ UNCHANGED <<op, decVars, convVars, f_pc>>

\* Line 240: the host returns zs, xs, xn; the joint kernel may still be queued.
HostReturn ==
    /\ op = "forward" /\ f_pc = Len(ForwardBody) + 1
    /\ f_pc' = f_pc + 1
    /\ UNCHANGED <<op, decVars, convVars, queue, buf, acc>>

\* The p-th of np operations that produce the inputs (np >= 1).
InputKernel(p, np) ==
    Kernel("input", {}, {Inputs[k] : k \in {k \in 1 .. Len(Inputs) : (k % np) + 1 = p}})

\* forward is called with up to MaxPending operations producing its inputs
\* still pending on the default stream; the weights are in place.
InitForward ==
    /\ op = "forward"
    /\ f_pc = 1
    /\ \E np \in 0 .. MaxPending :
          /\ queue = [st \in Streams |->
                        IF st = "default" THEN [p \in 1 .. np |-> InputKernel(p, np)]
                        ELSE <<>>]
          /\ buf = [b \in Buffers |->
                      IF b \in {"am_weights", "lm_weights", "fc_weights"} THEN "ok"
                      ELSE IF np = 0 /\ b \in {Inputs[k] : k \in 1 .. Len(Inputs)} THEN "ok"
                      ELSE "unset"]
    /\ acc = [st \in Streams |-> [reads |-> {}, writes |-> {}]]
    /\ DecodeIdle /\ ConvIdle

NextForward == HostSynchronize \/ HostLaunch \/ HostReturn \/ DeviceRun

SpecForward == InitForward /\ [][NextForward]_vars

\* ------------------------------------------------------ claims on Transducer.forward
Launched(name) ==
    \/ \E st \in Streams : \E k \in 1 .. Len(queue[st]) : queue[st][k].name = name
    \/ \E st \in Streams : \E b \in acc[st].writes :
          \E kn \in {AcousticKernels[k] : k \in 1 .. Len(AcousticKernels)}
                     \cup {LanguageKernels[k] : k \in 1 .. Len(LanguageKernels)}
                     \cup {JointKernel} : kn.name = name /\ b \in kn.writes

\* C6: the two passes are launched on their own streams only once the
\* inputs are in place, the joint step is launched only when both passes
\* have completed, so that no kernel ever reads a buffer that is not yet
\* written, and neither pass writes a buffer the other reads or writes.
C6_JointAfterBothPasses ==
    op = "forward" =>
        /\ \A b \in Buffers : buf[b] # "bad"
        /\ (Launched("am.conv") \/ Launched("lm.emb")) =>
              \A k \in 1 .. Len(Inputs) : buf[Inputs[k]] = "ok"
        /\ Launched("joint") =>
              /\ buf["xs_out"] = "ok" /\ buf["xn_out"] = "ok" /\ buf["ys_out"] = "ok"
              /\ queue["stream_am"] = <<>> /\ queue["stream_lm"] = <<>>
        /\ acc["stream_am"].writes \cap (acc["stream_lm"].reads \cup acc["stream_lm"].writes) = {}
        /\ acc["stream_lm"].writes \cap (acc["stream_am"].reads \cup acc["stream_am"].writes) = {}

\* C6 witness: forward has run to its end with inputs that were still being
\* produced at the call, both passes ran on their streams, and the joint
\* output is good.
C6_Witness ==
    /\ op = "forward" /\ f_pc = Len(ForwardBody) + 2
    /\ "xs" \in acc["default"].writes
    /\ "xs_out" \in acc["stream_am"].writes /\ "ys_out" \in acc["stream_lm"].writes
    /\ buf["zs"] = "ok"

\* ------------------------------------------------------ the whole model
Init == InitDecode \/ InitConv \/ InitForward

Next == NextDecode \/ NextConv \/ NextForward

Spec == Init /\ [][Next]_vars

=============================================================================
